---------------------------- MODULE Spec2Model ----------------------------
(***************************************************************************)
(* The orbit camera of the-camera (camera/orbit_camera.rs), its input      *)
(* controller (camera/camera_controller.rs), the frame driver (app.rs,     *)
(* render_engine.rs) and the uniform buffer (wgpu_utils/uniform_buffer.rs).*)
(*                                                                         *)
(* Numbers.  An f32 is modelled by its IEEE 754 binary32 bit pattern: a    *)
(* value with the sign bit clear is the integer its 32 bits spell (+0.0 is *)
(* 0, 1.0 is 1065353216, +infinity is 2139095040), a value with the sign   *)
(* bit set is -(magnitude bits) - 1 (-0.0 is -1), so that the order of the *)
(* integers is the order of the values.  In the arithmetic all NaNs are    *)
(* one value; where the bytes of an f32 are read (the uniform buffer) a    *)
(* NaN is any of the NaN bit patterns.  Sums,                              *)
(* differences, products, quotients, square roots and integer conversions  *)
(* are rounded to nearest, ties to even, as the hardware rounds them, with *)
(* overflow to the infinities, gradual underflow and signed zeros.         *)
(*                                                                         *)
(* f32::sin, f32::cos, f32::tan and f32::log10 call the platform's libm,   *)
(* whose precision Rust leaves unspecified: a result is the f32 nearest to *)
(* the exact value or a neighbour of it, TrigUlps (LogUlps for log10)      *)
(* floats away at most.  These four are therefore sets, the results a call *)
(* may return, and so is every operation that calls them: the eye          *)
(* position, the constructor, update, the bounded setters, the projection  *)
(* and update_view_proj are the sets of their possible outcomes, and a     *)
(* step of the model takes any one of them.                                *)
(*                                                                         *)
(* Specifications.  Spec is the engine: the state RenderEngine::new        *)
(* leaves, driven by the window events App::window_event handles, by a    *)
(* further App::resumed and by the device and key events the engine and    *)
(* its controller accept.                                                  *)
(* SpecCam is the camera alone: a camera built by OrbitCamera::new, its    *)
(* public methods called with any argument and its public bounds field     *)
(* assigned.  SpecUbo is a uniform buffer alone.  A panic aborts the       *)
(* process: fault is set and nothing runs after it.                        *)
(***************************************************************************)
EXTENDS Integers, Sequences, FiniteSets, TLC

(* ---------------------------------------------------------------------- *)
(* f32: IEEE 754 binary32                                                  *)
(* ---------------------------------------------------------------------- *)

\* 2^n, 0 <= n <= 30.
Pow2(n) == 2 ^ n

TwoP23 == 8388608

TwoP24 == 16777216

\* The bit pattern of +infinity, 0x7F800000: exponent field all ones.
InfBits == 2139095040

\* f32::MAX, 0x7F7FFFFF = 3.4028235e38, and f32::MIN = -f32::MAX.
FMax == InfBits - 1

FMin == -InfBits

\* f32::INFINITY, f32::NEG_INFINITY and f32::NAN (0x7FC00000).
PosInf == InfBits

NegInf == -InfBits - 1

NaN == 2143289344

\* f32::EPSILON = 2^-23, 0x34000000.
EPSILON == 872415232

\* std::f32::consts::PI = 3.14159274, 0x40490FDB.
PI == 1078530011

\* -0.0.
NegZero == -1

\* The magnitude bits of x and x from its sign and magnitude bits.
Mag(x) == IF x < 0 THEN -x - 1 ELSE x

Enc(neg, mag) == IF neg THEN -mag - 1 ELSE mag

IsNaN(x) == x > InfBits \/ x < -InfBits - 1

IsInf(x) == x = InfBits \/ x = -InfBits - 1

IsZero(x) == x = 0 \/ x = -1

IsFinite(x) == Mag(x) < InfBits

\* IEEE comparisons: false of a NaN, and -0.0 equals +0.0.
Lt(a, b) == ~IsNaN(a) /\ ~IsNaN(b) /\ a < b /\ ~(IsZero(a) /\ IsZero(b))

Le(a, b) == ~IsNaN(a) /\ ~IsNaN(b) /\ (a <= b \/ (IsZero(a) /\ IsZero(b)))

\* Unary minus and f32::abs.
FNeg(a) == IF IsNaN(a) THEN NaN ELSE -a - 1

FAbs(a) == IF IsNaN(a) THEN NaN ELSE Mag(a)

Max(a, b) == IF a >= b THEN a ELSE b

Min(a, b) == IF a <= b THEN a ELSE b

\* The number of bits of n, 0 <= n < 2^31.
RECURSIVE BitLen(_)
BitLen(n) ==
    IF n >= 65536 THEN 16 + BitLen(n \div 65536)
    ELSE IF n >= 256 THEN 8 + BitLen(n \div 256)
    ELSE IF n >= 16 THEN 4 + BitLen(n \div 16)
    ELSE IF n >= 4 THEN (IF n >= 8 THEN 4 ELSE 3)
    ELSE IF n >= 2 THEN 2 ELSE n

\* M / 2^sh rounded to nearest, ties to even; exact when sh <= 0.  Of the
\* quotient q and the remainder r of the shift, q is rounded up when r is
\* above half, the weight of the first bit shifted out, or is half and q is
\* odd or sticky tells that the value lies above q and r.
RoundShift(M, sh, sticky) ==
    LET RoundTo(q, r, half) ==
            IF r > half \/ (r = half /\ (sticky \/ (q % 2) = 1)) THEN q + 1 ELSE q
    IN  IF sh <= 0 THEN M * Pow2(-sh)
        ELSE RoundTo(M \div Pow2(sh), M % Pow2(sh), Pow2(sh - 1))

\* Round to nearest, ties to even: the f32 nearest to (-1)^neg * v, where v
\* is M * 2^E (0 <= M < 2^30), or, when sticky, lies strictly between
\* M * 2^E and (M + 1) * 2^E.  Overflows to an infinity, underflows through
\* the subnormals to a zero.  Of the L bits of M the last sh are rounded
\* away: sh keeps 24 bits, fewer in the subnormal range.
Pack(neg, M, E, sticky) ==
    LET At(L, sh) ==
            IF sh > L THEN Enc(neg, 0)
            ELSE IF E + sh > 104 THEN Enc(neg, InfBits)
            ELSE Enc(neg, Min(InfBits, (E + sh + 149) * TwoP23 + RoundShift(M, sh, sticky)))
        Len24(L) == At(L, Max(L - 24, -149 - E))
    IN  IF M = 0 THEN Enc(neg, 0) ELSE Len24(BitLen(M))

\* A finite magnitude as m * 2^e: the fields as stored (subnormals have
\* e = -149) ...
RawM(mag) == IF mag < TwoP23 THEN mag ELSE TwoP23 + (mag % TwoP23)

RawE(mag) == IF mag < TwoP23 THEN -149 ELSE (mag \div TwoP23) - 150

\* ... and normalised, <<m, e>> with 2^23 <= m < 2^24, for a non-zero
\* magnitude: a subnormal of L bits is shifted up.
Norm(mag) ==
    LET Sub(L) == <<mag * Pow2(24 - L), L - 173>>
    IN  IF mag < TwoP23 THEN Sub(BitLen(mag))
        ELSE <<TwoP23 + (mag % TwoP23), (mag \div TwoP23) - 150>>

\* b / 2^d, jammed: of the quotient q and the remainder r of the shift, the
\* bits shifted out are kept as a sticky last bit.
ShiftRightJam(b, d) ==
    LET Jam(q, r) == IF r # 0 /\ (q % 2) = 0 THEN q + 1 ELSE q
    IN  IF d >= 27 THEN (IF b # 0 THEN 1 ELSE 0) ELSE Jam(b \div Pow2(d), b % Pow2(d))

\* a + b.  For finite non-zero operands the one with the larger exponent
\* goes first (x), the mantissas are aligned with three guard bits (A, B, of
\* weight 2^e) and the exact sum is rounded.
FAdd(a, b) ==
    LET Aligned(x, y, A, B, e) ==
            IF (x < 0) # (y < 0) /\ A = B THEN 0
            ELSE Pack(IF (x < 0) = (y < 0) \/ A > B THEN x < 0 ELSE y < 0,
                      IF (x < 0) = (y < 0) THEN A + B ELSE IF A > B THEN A - B ELSE B - A,
                      e, FALSE)
        Finite(x, y) ==
            Aligned(x, y, RawM(Mag(x)) * 8,
                    ShiftRightJam(RawM(Mag(y)) * 8, RawE(Mag(x)) - RawE(Mag(y))),
                    RawE(Mag(x)) - 3)
        Ordered(aFirst) == Finite(IF aFirst THEN a ELSE b, IF aFirst THEN b ELSE a)
    IN  IF IsNaN(a) \/ IsNaN(b) THEN NaN
        ELSE IF IsInf(a) THEN (IF IsInf(b) /\ a # b THEN NaN ELSE a)
        ELSE IF IsInf(b) THEN b
        ELSE IF IsZero(a) /\ IsZero(b) THEN (IF a < 0 /\ b < 0 THEN NegZero ELSE 0)
        ELSE IF IsZero(a) THEN b
        ELSE IF IsZero(b) THEN a
        ELSE Ordered(RawE(Mag(a)) >= RawE(Mag(b)))

\* a - b.
FSub(a, b) == FAdd(a, FNeg(b))

\* a * b.  For finite non-zero operands na = <<ma, ea>>, nb = <<mb, eb>>
\* the exact 48-bit product of the mantissas is formed from their 12-bit
\* halves, as hi * 2^24 + mid * 2^12 + lo = top * 2^24 + low, and rounded
\* from its first 30 bits, the rest being the sticky bit.
FMul(a, b) ==
    LET Rounded(neg, top, low, e) ==
            Pack(neg, top * 64 + (low \div 262144), e + 18, (low % 262144) # 0)
        Sum(neg, hi, mid, lo, e) ==
            Rounded(neg, hi + (mid \div 4096) + (((mid % 4096) * 4096 + lo) \div TwoP24),
                    ((mid % 4096) * 4096 + lo) % TwoP24, e)
        Halves(neg, a1, a0, b1, b0, e) ==
            Sum(neg, a1 * b1, a1 * b0 + a0 * b1, a0 * b0, e)
        Finite(neg, na, nb) ==
            Halves(neg, na[1] \div 4096, na[1] % 4096, nb[1] \div 4096, nb[1] % 4096,
                   na[2] + nb[2])
    IN  IF IsNaN(a) \/ IsNaN(b) THEN NaN
        ELSE IF IsInf(a) \/ IsInf(b)
             THEN (IF IsZero(a) \/ IsZero(b) THEN NaN
                   ELSE Enc((a < 0) # (b < 0), InfBits))
        ELSE IF IsZero(a) \/ IsZero(b) THEN Enc((a < 0) # (b < 0), 0)
        ELSE Finite((a < 0) # (b < 0), Norm(Mag(a)), Norm(Mag(b)))

\* Seven more bits of a quotient: qr is <<quotient so far, remainder>>.
DivStep(qr, d) ==
    <<qr[1] * 128 + ((qr[2] * 128) \div d), (qr[2] * 128) % d>>

\* a / b.  For finite non-zero operands na = <<ma, ea>>, nb = <<mb, eb>>,
\* 29 bits of the quotient of the mantissas by long division, rounded with
\* the remainder as the sticky bit.
FDiv(a, b) ==
    LET Rounded(neg, qr, e) == Pack(neg, qr[1], e, qr[2] # 0)
        Finite(neg, na, nb) ==
            Rounded(neg,
                    DivStep(DivStep(DivStep(DivStep(
                        <<na[1] \div nb[1], na[1] % nb[1]>>, nb[1]), nb[1]), nb[1]), nb[1]),
                    na[2] - nb[2] - 28)
    IN  IF IsNaN(a) \/ IsNaN(b) THEN NaN
        ELSE IF IsInf(a) THEN (IF IsInf(b) THEN NaN ELSE Enc((a < 0) # (b < 0), InfBits))
        ELSE IF IsInf(b) THEN Enc((a < 0) # (b < 0), 0)
        ELSE IF IsZero(b)
             THEN (IF IsZero(a) THEN NaN ELSE Enc((a < 0) # (b < 0), InfBits))
        ELSE IF IsZero(a) THEN Enc((a < 0) # (b < 0), 0)
        ELSE Finite((a < 0) # (b < 0), Norm(Mag(a)), Norm(Mag(b)))

\* One step of the digit recurrence of the square root of m * 2^26: st is
\* <<the index of the next bit pair, root, remainder>>, the bit pairs below
\* 0 being zeros.
SqrtStep(m, st) ==
    LET Pair(i) == IF i >= 0 THEN (m \div Pow2(2 * i)) % 4 ELSE 0
        Next2(r) ==
            IF r >= st[2] * 4 + 1 THEN <<st[1] - 1, st[2] * 2 + 1, r - (st[2] * 4 + 1)>>
            ELSE <<st[1] - 1, st[2] * 2, r>>
    IN  Next2(st[3] * 4 + Pair(st[1]))

\* The square root of m * 2^26: bit pairs 12..0 of m, then thirteen pairs
\* of zeros, two pairs at a time.  The result is <<root, remainder>>.
RECURSIVE SqrtRec(_, _)
SqrtRec(m, st) ==
    IF st[1] < -13 THEN <<st[2], st[3]>>
    ELSE SqrtRec(m, SqrtStep(m, SqrtStep(m, st)))

\* f32::sqrt.  The exponent of a finite positive a = m * 2^e is made even
\* and the root rr = <<root, remainder>> is rounded, the remainder as the
\* sticky bit.
FSqrt(a) ==
    LET Rounded(rr, e) == Pack(FALSE, rr[1], e, rr[2] # 0)
        Even(m, e, odd) ==
            Rounded(SqrtRec(IF odd THEN m * 2 ELSE m, <<12, 0, 0>>),
                    (((IF odd THEN e - 1 ELSE e) + 200) \div 2) - 113)
        Finite(n) == Even(n[1], n[2], ((n[2] + 200) % 2) = 1)
    IN  IF IsNaN(a) THEN NaN
        ELSE IF IsZero(a) THEN a
        ELSE IF a < 0 THEN NaN
        ELSE IF IsInf(a) THEN a
        ELSE Finite(Norm(a))

\* n as f32, for an integer |n| < 2^30: a u32, or an f64 whose value is an
\* integer.
AsF32(n) == Pack(n < 0, IF n < 0 THEN -n ELSE n, 0, FALSE)

\* The f32 literal whose decimal value is n / d, for integers n >= 0 and
\* d > 0 below 2^24: the f32 nearest to the quotient.
Dec(n, d) == FDiv(AsF32(n), AsF32(d))

\* The literals 1.0 (0x3F800000) and 2.0 (0x40000000).
One == 1065353216

Two == 1073741824

(* ---------------------------------------------------------------------- *)
(* Multi-precision fixed point for sin, cos, tan and log10.  A sequence a  *)
(* of limbs 0..4095 has the value a[1] + a[2]/4096 + a[3]/4096^2 + ...     *)
(* ---------------------------------------------------------------------- *)

\* Limbs carried through the series: one unit limb and sixty fraction bits.
NL == 6

Limb(a, i) == IF i >= 1 /\ i <= Len(a) THEN a[i] ELSE 0

LZero == <<0, 0, 0, 0, 0, 0>>

LOne == <<1, 0, 0, 0, 0, 0>>

LTwo == <<2, 0, 0, 0, 0, 0>>

\* 2/pi: limbs 1..20 of its fraction.
TwoOverPi ==
    << 2607, 2435, 1764, 3652, 338, 2556, 629, 2001, 3923, 1245,
       3085, 2914, 2393, 2364, 1081, 65, 4069, 355, 2749, 3771 >>

\* pi/2, log10(2) and 2/ln(10).
PiHalf == <<1, 2337, 4021, 1092, 721, 2118>>

Log10Of2 == <<0, 1233, 77, 1063, 3559, 4028>>

TwoOverLn10 == <<0, 3557, 3032, 2707, 1832, 1817>>

\* The bits of the f32 nearest to pi/4, 0x3F490FDB.
PiQuarterBits == 1061752795

\* The limbs acc found so far, from the last one backwards, with the next
\* limb and the carry (a borrow when negative) taken from t.
Carry(acc, t) == << <<t % 4096>> \o acc, t \div 4096 >>

\* Column k of the product a * b: the sum of a[i] * b[k + 1 - i], three
\* terms at a time (Limb is 0 outside a sequence).
RECURSIVE LCol(_, _, _, _)
LCol(a, b, k, i) ==
    IF i > k \/ i > Len(a) THEN 0
    ELSE Limb(a, i) * Limb(b, k + 1 - i) + Limb(a, i + 1) * Limb(b, k - i)
         + Limb(a, i + 2) * Limb(b, k - 1 - i) + LCol(a, b, k, i + 3)

\* The limbs of a product, from the last column to the first: st is <<the
\* limbs found so far, the carry into the next column>>.
RECURSIVE LMulRec(_, _, _, _)
LMulRec(a, b, n, st) ==
    IF Len(st[1]) = n THEN st[1]
    ELSE LMulRec(a, b, n,
                 Carry(st[1], LCol(a, b, n - Len(st[1]),
                                   Max(1, n - Len(st[1]) + 1 - Len(b))) + st[2]))

\* The first n limbs of a * b; column n + 1 feeds the carry.
LMul(a, b, n) == SubSeq(LMulRec(a, b, n + 1, <<<<>>, 0>>), 1, n)

\* a * a.
LSq(a) == LMul(a, a, NL)

RECURSIVE LScaleRec(_, _, _)
LScaleRec(a, m, st) ==
    IF Len(st[1]) = Len(a) THEN st[1]
    ELSE LScaleRec(a, m, Carry(st[1], a[Len(a) - Len(st[1])] * m + st[2]))

\* a * m for an integer 0 <= m <= 4096.
LScale(a, m) == LScaleRec(a, m, <<<<>>, 0>>)

\* The limbs of a quotient by d, from the first one on: st is <<the limbs
\* found so far, the remainder>>.
RECURSIVE LDivSRec(_, _, _)
LDivSRec(a, d, st) ==
    IF Len(st[1]) = Len(a) THEN st[1]
    ELSE LDivSRec(a, d, << Append(st[1], (st[2] * 4096 + a[Len(st[1]) + 1]) \div d),
                           (st[2] * 4096 + a[Len(st[1]) + 1]) % d >>)

\* a / d for an integer 0 < d < 2^18, truncated.
LDivS(a, d) == LDivSRec(a, d, <<<<>>, 0>>)

\* a + sign * b, limb by limb from the last one.
RECURSIVE LAddRec(_, _, _, _)
LAddRec(a, b, sign, st) ==
    IF Len(st[1]) = Len(a) THEN st[1]
    ELSE LAddRec(a, b, sign,
                 Carry(st[1], a[Len(a) - Len(st[1])]
                                + sign * Limb(b, Len(a) - Len(st[1])) + st[2]))

\* a - b, for a >= b.
LSub(a, b) == LAddRec(a, b, -1, <<<<>>, 0>>)

\* a / 4096^j.
LShr(a, j) == [i \in 1..Len(a) |-> Limb(a, i - j)]

\* a / 2^t.
LShrBits(a, t) ==
    SubSeq(LShr(LScale(<<0>> \o a, Pow2(12 - (t % 12))), t \div 12), 1, Len(a))

\* The index of the first non-zero limb of a, Len(a) + 1 when a is zero.
RECURSIVE LLeadFrom(_, _)
LLeadFrom(a, i) ==
    IF i > Len(a) \/ a[i] # 0 THEN i ELSE LLeadFrom(a, i + 1)

LLead(a) == LLeadFrom(a, 1)

\* The f32 nearest to (-1)^neg * value(a) * 2^e, value(a) being inexact:
\* thirty bits v * 2^24 + w from the first non-zero limb j on, which has b
\* bits, rounded.
PackL(neg, a, e) ==
    LET Bits(v, w, b, ex) ==
            Pack(neg, v * Pow2(18 - b) + (w \div Pow2(6 + b)), ex - 18 + b, TRUE)
        Lead(j) ==
            IF j > Len(a) THEN Enc(neg, 0)
            ELSE Bits(Limb(a, j) * 4096 + Limb(a, j + 1),
                      Limb(a, j + 2) * 4096 + Limb(a, j + 3), BitLen(Limb(a, j)), e - 12 * j)
    IN  Lead(LLead(a))

\* 1 - z/(k(k+1)) * (1 - z/((k+2)(k+3)) * (1 - ...)), the last divisor
\* being last * (last + 1), evaluated from the innermost factor outwards:
\* st is <<the index of the next divisor, the value so far>>.
RECURSIVE HornerFrom(_, _, _)
HornerFrom(z, k, st) ==
    IF st[1] < k THEN st[2]
    ELSE HornerFrom(z, k, <<st[1] - 2,
                            LSub(LOne, LDivS(LMul(z, st[2], NL), st[1] * (st[1] + 1)))>>)

\* sin(r) / r and cos(r) from z = r^2, 0 <= r <= pi/4: the Taylor series
\* to r^17.
SinFactor(z) == HornerFrom(z, 2, <<16, LOne>>)

CosSeries(z) == HornerFrom(z, 1, <<17, LOne>>)

\* Argument reduction of a finite non-zero |x| given by its bits: the
\* record [n, neg, R, k] with |x| = n * pi/2 + s * r (mod 2 pi), where
\* r = value(R) / 4096^k is in [0, pi/4] and s = -1 when neg.  Up to pi/4
\* nothing is removed; beyond, |x| * 2/pi is formed from the limbs of 2/pi
\* that decide its value modulo 4 and 96 bits of its fraction.
\*   T2P(k) is limb k of the fraction of 2/pi, 0 outside the table;
\*   Mant3(m, s) is the mantissa M = m * 2^s (m < 2^24, s < 12) as three
\*   limbs of an integer, |x| being M * 4096^g;
\*   y is |x| * 2/pi modulo 4096, its limb 3 holding the units q; a fraction
\*   f above 1/2 is folded to 1 - f and counted with the next quarter turn;
\*   the reduced argument is r = f2 * pi/2, taken from the first non-zero
\*   limb j of the folded fraction f2.
Reduce(mag) ==
    LET T2P(k) == IF k >= 1 /\ k <= Len(TwoOverPi) THEN TwoOverPi[k] ELSE 0
        Limbs3(hi, lo) ==
            <<(hi + (lo \div 4096)) \div 4096, (hi + (lo \div 4096)) % 4096, lo % 4096>>
        Mant3(m, s) == Limbs3((m \div 4096) * Pow2(s), (m % 4096) * Pow2(s))
        Out(n, up, f2, j) ==
            IF j > Len(f2) THEN [n |-> n, neg |-> up, R |-> LZero, k |-> 0]
            ELSE [n |-> n, neg |-> up,
                  R |-> LMul(<<0>> \o [i \in 1..5 |-> Limb(f2, j + i - 1)], PiHalf, NL),
                  k |-> j - 2]
        Lead(n, up, f2) == Out(n, up, f2, LLead(f2))
        Fold(q, f) ==
            Lead(IF f[2] >= 2048 THEN (q + 1) % 4 ELSE q % 4, f[2] >= 2048,
                 IF f[2] >= 2048 THEN LSub(<<1, 0, 0, 0, 0, 0, 0, 0, 0>>, f) ELSE f)
        Frac(y) == Fold(y[3], <<0>> \o SubSeq(y, 4, 11))
        By(M, g) ==
            IF mag <= PiQuarterBits
            THEN [n |-> 0, neg |-> FALSE, R |-> M \o <<0, 0, 0>>, k |-> -(g + 2)]
            ELSE Frac(LMul(M, [i \in 1..12 |-> T2P(g + i - 1)], 12))
        Normed(n) == By(Mant3(n[1], (n[2] + 240) % 12), ((n[2] + 240) \div 12) - 20)
    IN  Normed(Norm(mag))

\* sin(x) when shift = 0 and cos(x) = sin(x + pi/2) when shift = 1, for a
\* finite non-zero x: from the reduced argument rd in quadrant q, z being
\* r^2, the sine series in the even quadrants, the cosine series in the odd
\* ones.
SinCos(x, shift) ==
    LET Of(xneg, q, rd, z) ==
            IF (q % 2) = 0
            THEN PackL(((q = 2) # rd.neg) # xneg, LMul(rd.R, SinFactor(z), NL), -12 * rd.k)
            ELSE PackL((q = 3) # xneg, CosSeries(z), 0)
        Reduced(rd) ==
            Of(shift = 0 /\ x < 0, (rd.n + shift) % 4, rd, LSq(LShr(rd.R, rd.k)))
    IN  Reduced(Reduce(Mag(x)))

\* The floats by which a result of the platform's sin, cos and tan, and of
\* its log10, may lie away from the f32 nearest to the exact value.
TrigUlps == 1

LogUlps == 2

\* The results the platform's libm may return where v is the f32 nearest to
\* the exact value: v and the floats of its sign up to ulps floats away.  A
\* NaN, an infinity and a zero are exact results, returned as they are.
Libm(v, ulps) ==
    IF ~IsFinite(v) \/ IsZero(v) THEN {v}
    ELSE {w \in (v - ulps) .. (v + ulps) : IsFinite(w) /\ ~IsZero(w) /\ (w < 0) = (v < 0)}

\* f32::sin: the results a call may return, none above 1 in magnitude.
FSin(x) ==
    IF IsNaN(x) \/ IsInf(x) THEN {NaN}
    ELSE IF IsZero(x) THEN {x}
    ELSE {w \in Libm(SinCos(x, 0), TrigUlps) : Mag(w) <= One}

\* f32::cos: the results a call may return, none above 1 in magnitude.
FCos(x) ==
    IF IsNaN(x) \/ IsInf(x) THEN {NaN}
    ELSE IF IsZero(x) THEN {One}
    ELSE {w \in Libm(SinCos(x, 1), TrigUlps) : Mag(w) <= One}

\* a = value(LNormM(a)) * 2^LNormE(a) with 1/2 <= value(LNormM(a)) < 1, for
\* a non-zero a whose first non-zero limb is j.
LNormM(a) ==
    LET At(t, j) == <<0>> \o [i \in 1..5 |-> Limb(t, j + i - 1)]
        From(j) == At(LScale(a, Pow2(12 - BitLen(a[j]))), j)
    IN  From(LLead(a))

LNormE(a) ==
    LET At(j) == 12 - 12 * j + BitLen(a[j])
    IN  At(LLead(a))

\* Newton's iteration y <- y * (2 - b * y) towards 1 / b: st is <<the steps
\* left, y>>.
RECURSIVE Newton(_, _)
Newton(b, st) ==
    IF st[1] = 0 THEN st[2]
    ELSE Newton(b, <<st[1] - 1, LMul(st[2], LSub(LTwo, LMul(b, st[2], NL)), NL)>>)

\* 1 / b for 1/2 <= b < 1: three steps from the twelve-bit estimate y0.
LRecip(b) ==
    LET From(y0) == Newton(b, <<3, <<y0 \div 4096, y0 % 4096, 0, 0, 0, 0>>>>)
    IN  From(TwoP24 \div (b[2] + 1))

\* The f32 nearest to (-1)^neg * a / b * 2^e.
LQuot(neg, a, b, e) ==
    PackL(neg, LMul(LNormM(a), LRecip(LNormM(b)), NL), LNormE(a) - LNormE(b) + e)

\* f32::tan: the results a call may return.  The nearest f32 is found from
\* s = sin(r) and c = cos(r) of the reduced argument rd, z being r^2, as
\* sin / cos, or -cos / sin in the odd quadrants.
FTan(x) ==
    LET Of(rd, s, c) ==
            IF LLead(s) > Len(s) THEN {x}
            ELSE Libm(LQuot(IF (rd.n % 2) = 0 THEN rd.neg # (x < 0) ELSE (~rd.neg) # (x < 0),
                       IF (rd.n % 2) = 0 THEN s ELSE c,
                       IF (rd.n % 2) = 0 THEN c ELSE s,
                       IF (rd.n % 2) = 0 THEN -12 * rd.k ELSE 12 * rd.k), TrigUlps)
        Series(rd, z) == Of(rd, LMul(rd.R, SinFactor(z), NL), CosSeries(z))
        Reduced(rd) == Series(rd, LSq(LShr(rd.R, rd.k)))
    IN  IF IsNaN(x) \/ IsInf(x) THEN {NaN}
        ELSE IF IsZero(x) THEN {x}
        ELSE Reduced(Reduce(Mag(x)))

\* n limbs of a quotient by d (remainder < d < 2^25), twelve bits at a time
\* in two steps of six: st is <<the limbs found so far, the remainder>>.
RECURSIVE DivDigitsRec(_, _, _)
DivDigitsRec(d, n, st) ==
    LET Digit(r1) ==
            << Append(st[1], ((st[2] * 64) \div d) * 64 + ((r1 * 64) \div d)), (r1 * 64) % d >>
    IN  IF Len(st[1]) = n THEN st[1]
        ELSE DivDigitsRec(d, n, Digit((st[2] * 64) % d))

\* 1/k + w/(k+2) + w^2/(k+4) + ..., up to the divisor last, evaluated from
\* the last term backwards: st is <<the next divisor, the value so far>>.
RECURSIVE LogSeriesFrom(_, _, _)
LogSeriesFrom(w, k, st) ==
    IF st[1] < k THEN st[2]
    ELSE LogSeriesFrom(w, k, <<st[1] - 2,
                               LAddRec(LDivS(LOne, st[1]), LMul(w, st[2], NL), 1, <<<<>>, 0>>)>>)

\* |E2| * log10(2).
Log10Exp(E2) == LScale(Log10Of2, IF E2 < 0 THEN -E2 ELSE E2)

\* f32::log10: the results a call may return.  For the nearest f32,
\* x = f * 2^E2 with 3/4 <= f < 3/2, and
\* log10(x) = E2 * log10(2) + 2/ln(10) * atanh(z), z = (f - 1) / (f + 1).
\*   |f - 1| = N / 2^23 (N / 2^24 when high, which is f < 1) and
\*   f + 1 = D / 2^23 (D / 2^24);
\*   |z| = N / D, N shifted up by t bits to 24 bits; Z is |z| * 2^t;
\*   |log10(f)| = 2/ln(10) * |z| * (1 + z^2/3 + z^4/5 + ...), Lg being
\*   |log10(f)| * 2^t;
\*   E2 * log10(2) and log10(f) have the same sign when f > 1 and E2 > 0,
\*   or f < 1 and E2 < 0.
FLog10(x) ==
    LET Sum(high, E2, t, Lg) ==
            IF E2 = 0 THEN PackL(high, Lg, -t)
            ELSE PackL(E2 < 0,
                       LAddRec(Log10Exp(E2), LShrBits(Lg, t),
                               IF (E2 < 0) = high THEN 1 ELSE -1, <<<<>>, 0>>),
                       0)
        Series(high, E2, t, Z) ==
            Sum(high, E2, t,
                LMul(LMul(Z, LogSeriesFrom(LSq(LShrBits(Z, t)), 1, <<23, LZero>>), NL),
                     TwoOverLn10, NL))
        Ratio(high, E2, N, D, t) ==
            Series(high, E2, t, <<0>> \o DivDigitsRec(D, 5, <<<<>>, N * Pow2(t)>>))
        Parts(high, E2, N, D) ==
            IF N = 0 THEN PackL(E2 < 0, Log10Exp(E2), 0)
            ELSE Ratio(high, E2, N, D, 24 - BitLen(N))
        Split(m, e, high) ==
            Parts(high, IF high THEN e + 24 ELSE e + 23,
                  IF high THEN TwoP24 - m ELSE m - TwoP23,
                  IF high THEN m + TwoP24 ELSE m + TwoP23)
        Finite(n) == Split(n[1], n[2], n[1] >= 12582912)
    IN  IF IsNaN(x) THEN {NaN}
        ELSE IF IsZero(x) THEN {NegInf}
        ELSE IF x < 0 THEN {NaN}
        ELSE IF IsInf(x) THEN {x}
        ELSE Libm(Finite(Norm(x)), LogUlps)

(* ---------------------------------------------------------------------- *)
(* cgmath: Vector3<f32>, Matrix4<f32> (column-major), look_at_rh,          *)
(* perspective                                                             *)
(* ---------------------------------------------------------------------- *)

\* Vector3::zero() and Vector3::unit_y().
VZero == <<0, 0, 0>>

VUnitY == <<0, One, 0>>

VAdd(a, b) == <<FAdd(a[1], b[1]), FAdd(a[2], b[2]), FAdd(a[3], b[3])>>

VSub(a, b) == <<FSub(a[1], b[1]), FSub(a[2], b[2]), FSub(a[3], b[3])>>

\* Vector3 * scalar.
VMulS(a, s) == <<FMul(a[1], s), FMul(a[2], s), FMul(a[3], s)>>

\* InnerSpace::dot: the element-wise products summed from the left.
VDot(a, b) == FAdd(FAdd(FMul(a[1], b[1]), FMul(a[2], b[2])), FMul(a[3], b[3]))

\* Vector3::cross.
VCross(a, b) ==
    << FSub(FMul(a[2], b[3]), FMul(a[3], b[2])),
       FSub(FMul(a[3], b[1]), FMul(a[1], b[3])),
       FSub(FMul(a[1], b[2]), FMul(a[2], b[1])) >>

\* InnerSpace::magnitude.
VMagnitude(a) == FSqrt(VDot(a, a))

\* InnerSpace::normalize: self * (1 / self.magnitude()).
VNormalize(a) == VMulS(a, FDiv(One, VMagnitude(a)))

\* Matrix4::identity(), as its four columns.
MIdentity ==
    << <<One, 0, 0, 0>>, <<0, One, 0, 0>>, <<0, 0, One, 0>>, <<0, 0, 0, One>> >>

\* Row r of column c of the product a * b: the columns of a scaled by the
\* entries of column c of b and summed from the left.
MMulEntry(a, b, c, r) ==
    FAdd(FAdd(FAdd(FMul(a[1][r], b[c][1]), FMul(a[2][r], b[c][2])),
              FMul(a[3][r], b[c][3])),
         FMul(a[4][r], b[c][4]))

\* Matrix4 * Matrix4: one column for each column of b, one row for each row
\* of a.
MMul(a, b) ==
    [c \in DOMAIN b |-> [r \in DOMAIN a[1] |-> MMulEntry(a, b, c, r)]]

\* Matrix4::look_at_rh(eye, center, up): look_to_rh(eye, center - eye, up),
\* whose axes are f = dir.normalize(), s = f.cross(up).normalize() and
\* u = s.cross(f).
look_at_rh(eye, center, up) ==
    LET Axes(f, s, u) ==
            << <<s[1], u[1], FNeg(f[1]), 0>>,
               <<s[2], u[2], FNeg(f[2]), 0>>,
               <<s[3], u[3], FNeg(f[3]), 0>>,
               <<FNeg(VDot(eye, s)), FNeg(VDot(eye, u)), VDot(eye, f), One>> >>
        Side(f, s) == Axes(f, s, VCross(s, f))
        Forward(f) == Side(f, VNormalize(VCross(f, up)))
    IN  Forward(VNormalize(VSub(center, eye)))

\* approx::abs_diff_ne!(a, b): not ((if a > b { a - b } else { b - a }) <=
\* f32::EPSILON), true of a NaN.
AbsDiffNe(a, b) == ~Le(IF Lt(b, a) THEN FSub(a, b) ELSE FSub(b, a), EPSILON)

\* The assertions of cgmath's PerspectiveFov -> Matrix4 conversion: fovy in
\* (0, PI), a non-zero aspect, near > 0, far > 0 and far different from near.
PerspectivePanics(fovy, aspect, near, far) ==
    \/ ~Lt(0, fovy)
    \/ ~Lt(fovy, PI)
    \/ ~AbsDiffNe(FAbs(aspect), 0)
    \/ ~Lt(0, near)
    \/ ~Lt(0, far)
    \/ ~AbsDiffNe(far, near)

\* cgmath::perspective(fovy, aspect, near, far): f is Rad::cot(fovy / 2),
\* the reciprocal of the tangent; one matrix for each result of the tangent.
perspective(fovy, aspect, near, far) ==
    LET Cot(f) ==
            << <<FDiv(f, aspect), 0, 0, 0>>,
               <<0, f, 0, 0>>,
               <<0, 0, FDiv(FAdd(far, near), FSub(near, far)), FNeg(One)>>,
               <<0, 0, FDiv(FMul(FMul(Two, far), near), FSub(near, far)), 0>> >>
    IN  {Cot(FDiv(One, t)) : t \in FTan(FDiv(fovy, Two))}

(* ---------------------------------------------------------------------- *)
(* camera/camera.rs                                                        *)
(* ---------------------------------------------------------------------- *)

\* convert_matrix4_to_array: result[i][j] = matrix4[i][j].
convert_matrix4_to_array(m) ==
    <<  <<m[1][1], m[1][2], m[1][3], m[1][4]>>,
        <<m[2][1], m[2][2], m[2][3], m[2][4]>>,
        <<m[3][1], m[3][2], m[3][3], m[3][4]>>,
        <<m[4][1], m[4][2], m[4][3], m[4][4]>> >>

\* CameraUniform::default().
CameraUniformDefault ==
    [ view_position |-> <<0, 0, 0, 0>>,
      view_proj     |-> convert_matrix4_to_array(MIdentity) ]

(* ---------------------------------------------------------------------- *)
(* camera/orbit_camera.rs                                                  *)
(* ---------------------------------------------------------------------- *)

\* OPENGL_TO_WGPU_MATRIX, as its four columns.
OPENGL_TO_WGPU_MATRIX ==
    << <<One, 0, 0, 0>>,
       <<0, One, 0, 0>>,
       <<0, 0, Dec(1, 2), Dec(1, 2)>>,
       <<0, 0, 0, One>> >>

\* Option<f32>: None is the empty sequence, Some(v) is <<v>>.
None == <<>>

Some(v) == <<v>>

\* Option::unwrap_or.
unwrap_or(o, d) == IF o = None THEN d ELSE o[1]

\* f32::clamp asserts min <= max; it panics when min > max or either is NaN.
ClampPanics(min, max) == ~Le(min, max)

\* f32::clamp(self, min, max), for min <= max.
clamp(x, min, max) ==
    IF Lt(x, min) THEN min ELSE IF Lt(max, x) THEN max ELSE x

\* OrbitCameraBounds::default().
OrbitCameraBoundsDefault ==
    [ min_distance |-> None,
      max_distance |-> Some(AsF32(16)),
      min_pitch    |-> FAdd(FDiv(FNeg(PI), Two), EPSILON),
      max_pitch    |-> FSub(FDiv(PI, Two), EPSILON),
      min_yaw      |-> None,
      max_yaw      |-> None ]

\* calculate_cartesian_eye_position(pitch, yaw, distance, target): the
\* vector (distance * yaw.sin() * pitch.cos(), distance * pitch.sin(),
\* distance * yaw.cos() * pitch.cos()) + target, for each result sy, cy, sp
\* and cp of yaw.sin(), yaw.cos(), pitch.sin() and pitch.cos().
calculate_cartesian_eye_position(pitch, yaw, distance, target) ==
    LET Of(sys, cys, ys, cp) ==
            { <<x, y, z>> :
                x \in {FAdd(FMul(FMul(distance, sy), cp), target[1]) : sy \in sys},
                y \in ys,
                z \in {FAdd(FMul(FMul(distance, cy), cp), target[3]) : cy \in cys} }
    IN  UNION { Of(sys, cys, ys, cp) :
                  sys \in {FSin(yaw)},
                  cys \in {FCos(yaw)},
                  ys  \in {{FAdd(FMul(distance, sp), target[2]) : sp \in FSin(pitch)}},
                  cp  \in FCos(pitch) }

\* An outcome of a call on the camera: it returned (ok) leaving cam, or it
\* panicked part-way, cam being the camera as the panic left it.
Returned(c) == [ok |-> TRUE, cam |-> c]

Panicked(c) == [ok |-> FALSE, cam |-> c]

\* OrbitCamera::update: recomputes eye from (pitch, yaw, distance, target);
\* the cameras it may leave.
update(c) ==
    { [c EXCEPT !.eye = e] :
        e \in calculate_cartesian_eye_position(c.pitch, c.yaw, c.distance, c.target) }

\* OrbitCamera::new(distance, pitch, yaw, target, aspect): the cameras it
\* may build.
OrbitCamera_new(distance, pitch, yaw, target, aspect) ==
    update([ distance |-> distance,
             pitch    |-> pitch,
             yaw      |-> yaw,
             eye      |-> VZero,
             target   |-> target,
             up       |-> VUnitY,
             bounds   |-> OrbitCameraBoundsDefault,
             aspect   |-> aspect,
             fovy     |-> FDiv(PI, AsF32(4)),
             znear    |-> Dec(1, 10),
             zfar     |-> AsF32(1000),
             uniform  |-> CameraUniformDefault ])

\* set_distance without its upper clamp.
set_distance_NoUpperClamp(c, distance) ==
    LET lo == unwrap_or(c.bounds.min_distance, EPSILON)
    IN  {Returned(u) :
            u \in update([c EXCEPT !.distance = IF Lt(distance, lo) THEN lo ELSE distance])}

\* OrbitCamera::set_distance.
set_distance(c, distance) ==
    LET lo == unwrap_or(c.bounds.min_distance, EPSILON)
        hi == unwrap_or(c.bounds.max_distance, FMax)
    IN  IF ClampPanics(lo, hi) THEN {Panicked(c)}
        ELSE {Returned(u) : u \in update([c EXCEPT !.distance = clamp(distance, lo, hi)])}

\* add_distance without the logarithmic scaling: distance + delta.
add_distance_Linear(c, delta) ==
    LET Proposing(p) ==
            {[ok |-> r.ok, cam |-> r.cam, proposed |-> p] : r \in set_distance(c, p)}
    IN  UNION {Proposing(p) : p \in {FAdd(c.distance, delta)}}

\* OrbitCamera::add_distance: corrected_zoom is log10(distance) * delta, for
\* each result of the logarithm.  An outcome is an outcome of the
\* set_distance call, with the distance proposed to it.
add_distance(c, delta) ==
    LET Proposing(p) ==
            {[ok |-> r.ok, cam |-> r.cam, proposed |-> p] : r \in set_distance(c, p)}
        Zoom(corrected_zoom) == FAdd(c.distance, corrected_zoom)
    IN  UNION {Proposing(p) : p \in {Zoom(FMul(l, delta)) : l \in FLog10(c.distance)}}

\* set_pitch clamping to max_pitch only.
set_pitch_NoLowerClamp(c, pitch) ==
    {Returned(u) :
        u \in update([c EXCEPT !.pitch = IF Lt(c.bounds.max_pitch, pitch)
                                         THEN c.bounds.max_pitch ELSE pitch])}

\* OrbitCamera::set_pitch.
set_pitch(c, pitch) ==
    IF ClampPanics(c.bounds.min_pitch, c.bounds.max_pitch) THEN {Panicked(c)}
    ELSE {Returned(u) :
            u \in update([c EXCEPT
                            !.pitch = clamp(pitch, c.bounds.min_pitch, c.bounds.max_pitch)])}

\* OrbitCamera::add_pitch.
add_pitch(c, delta) == set_pitch(c, FAdd(c.pitch, delta))

\* set_yaw applying min_yaw only: max_yaw is ignored.
set_yaw_NoUpperClamp(c, yaw) ==
    LET minPanics == c.bounds.min_yaw # None /\ ClampPanics(c.bounds.min_yaw[1], FMax)
    IN  IF minPanics THEN {Panicked(c)}
        ELSE {Returned(u) : u \in update([c EXCEPT !.yaw = IF c.bounds.min_yaw = None THEN yaw
                                       ELSE clamp(yaw, c.bounds.min_yaw[1], FMax)])}

\* OrbitCamera::set_yaw: the two optional clamps, one after the other.
set_yaw(c, yaw) ==
    LET minPanics == c.bounds.min_yaw # None /\ ClampPanics(c.bounds.min_yaw[1], FMax)
        y1 == IF c.bounds.min_yaw = None \/ minPanics THEN yaw
              ELSE clamp(yaw, c.bounds.min_yaw[1], FMax)
        maxPanics == c.bounds.max_yaw # None /\ ClampPanics(FMin, c.bounds.max_yaw[1])
        y2 == IF c.bounds.max_yaw = None \/ maxPanics THEN y1
              ELSE clamp(y1, FMin, c.bounds.max_yaw[1])
    IN  IF minPanics \/ maxPanics THEN {Panicked(c)}
        ELSE {Returned(u) : u \in update([c EXCEPT !.yaw = y2])}

\* OrbitCamera::add_yaw.
add_yaw(c, delta) == set_yaw(c, FAdd(c.yaw, delta))

\* OrbitCamera::pan: eye.y and target.y move by delta.1 * distance (eye1,
\* target1); then, with forward = (target - eye).normalize() and
\* cross = forward.cross(up).normalize(), eye and target move by
\* shift = cross * delta.0 * distance.
pan(c, delta) ==
    LET Shifted(eye1, target1, shift) ==
            Returned([c EXCEPT !.eye = VSub(eye1, shift), !.target = VSub(target1, shift)])
        Crossed(eye1, target1, cross) ==
            Shifted(eye1, target1, VMulS(VMulS(cross, delta[1]), c.distance))
        Raised(eye1, target1) ==
            Crossed(eye1, target1, VNormalize(VCross(VNormalize(VSub(target1, eye1)), c.up)))
    IN  Raised([c.eye EXCEPT ![2] = FAdd(c.eye[2], FMul(delta[2], c.distance))],
               [c.target EXCEPT ![2] = FAdd(c.target[2], FMul(delta[2], c.distance))])

\* resize_projection storing height / width.
resize_projection_Inverted(c, width, height) ==
    Returned([c EXCEPT !.aspect = FDiv(AsF32(height), AsF32(width))])

\* resize_projection that also refreshes the uniform snapshot.
resize_projection_WritesUniform(c, width, height) ==
    LET c1 == [c EXCEPT !.aspect = FDiv(AsF32(width), AsF32(height))]
    IN  Returned([c1 EXCEPT !.uniform.view_position = <<c.eye[1], c.eye[2], c.eye[3], One>>])

\* OrbitCamera::resize_projection.
resize_projection(c, width, height) ==
    Returned([c EXCEPT !.aspect = FDiv(AsF32(width), AsF32(height))])

\* Camera::build_view_projection_matrix for OrbitCamera: proj * view, for
\* each projection matrix perspective may return.
build_view_projection_matrix(c) ==
    { MMul(MMul(OPENGL_TO_WGPU_MATRIX, proj), view) :
        view \in {look_at_rh(c.eye, c.target, c.up)},
        proj \in perspective(c.fovy, c.aspect, c.znear, c.zfar) }

\* OrbitCamera::update_view_proj: its outcomes.
update_view_proj(c) ==
    IF PerspectivePanics(c.fovy, c.aspect, c.znear, c.zfar)
    THEN {Panicked([c EXCEPT !.uniform.view_position = <<c.eye[1], c.eye[2], c.eye[3], One>>])}
    ELSE { Returned([c EXCEPT
              !.uniform = [ view_position |-> <<c.eye[1], c.eye[2], c.eye[3], One>>,
                            view_proj     |-> convert_matrix4_to_array(m) ]]) :
             m \in build_view_projection_matrix(c) }

(* ---------------------------------------------------------------------- *)
(* wgpu_utils/uniform_buffer.rs, global_bindings.rs                        *)
(* ---------------------------------------------------------------------- *)

\* The bit patterns an f32 may have in memory.  The build keeps the sign and
\* the payload of a NaN operand in its result, and the arithmetic above
\* keeps one NaN for all of them: a NaN in memory has any of the NaN bit
\* patterns, 0x7f800001 to 0x7fffffff and 0xff800001 to 0xffffffff.
to_bits(v) ==
    IF IsNaN(v)
    THEN ((InfBits + 1) .. 2147483647) \cup ((-2147483647 - 1) .. (-InfBits - 2))
    ELSE {v}

\* CameraUniform, repr(C): the contents in memory a uniform may have, every
\* word of view_position and of the four columns of view_proj a bit pattern
\* of its f32.
CameraUniform(uniform) ==
    LET Vec4(v) == to_bits(v[1]) \X to_bits(v[2]) \X to_bits(v[3]) \X to_bits(v[4])
    IN  [ view_position : Vec4(uniform.view_position),
          view_proj     : Vec4(uniform.view_proj[1]) \X Vec4(uniform.view_proj[2])
                              \X Vec4(uniform.view_proj[3]) \X Vec4(uniform.view_proj[4]) ]

\* bytemuck::bytes_of(&content): the 20 words of the repr(C) struct in
\* memory order, view_position then the four columns, bit for bit.
bytes_of(content) ==
    content.view_position \o content.view_proj[1] \o content.view_proj[2]
        \o content.view_proj[3] \o content.view_proj[4]

\* UniformBuffer::new: a zero-initialised GPU buffer, no previous content.
\* buffer is the GPU buffer's content, writes the queue writes issued.
UniformBuffer_new ==
    [ buffer           |-> [i \in 1..20 |-> 0],
      previous_content |-> <<>>,
      writes           |-> 0 ]

\* UniformBuffer::new_with_data.
UniformBuffer_new_with_data(content) ==
    [ buffer           |-> bytes_of(content),
      previous_content |-> bytes_of(content),
      writes           |-> 0 ]

\* update_content that writes the buffer without remembering what it wrote.
update_content_ForgetsContent(ub, content) ==
    LET new_content == bytes_of(content)
    IN  IF ub.previous_content = new_content THEN ub
        ELSE [ buffer           |-> new_content,
               previous_content |-> ub.previous_content,
               writes           |-> ub.writes + 1 ]

\* UniformBuffer::update_content: the bytes of the content are compared
\* with previous_content; when they differ they are written to the buffer
\* and kept.
update_content(ub, content) ==
    LET new_content == bytes_of(content)
    IN  IF ub.previous_content = new_content THEN ub
        ELSE [ buffer           |-> new_content,
               previous_content |-> new_content,
               writes           |-> ub.writes + 1 ]

\* update_global_ubo(ubo, queue, camera): update_content with
\* GlobalUBOContent { camera }, whose bytes are those of camera, a uniform
\* as it lies in memory.
update_global_ubo(ub, camera) == update_content(ub, camera)

(* ---------------------------------------------------------------------- *)
(* camera/camera_controller.rs                                             *)
(* ---------------------------------------------------------------------- *)

\* CameraController::new.
CameraController_new(rotate_speed, zoom_speed) ==
    [ rotate_speed   |-> rotate_speed,
      zoom_speed     |-> zoom_speed,
      is_drag_rotate |-> FALSE,
      is_pan         |-> FALSE ]

\* MouseScrollDelta: LineDelta(_, scroll) carries an f32, PixelDelta a
\* PhysicalPosition<f64> whose y is here an integer number of pixels.
LineDelta(scroll) == [line |-> TRUE, v |-> scroll]

PixelDelta(y) == [line |-> FALSE, v |-> y]

\* The events process_events tells apart.  A Button event of the primary
\* button (button 0) carries its ElementState, a MouseWheel event its
\* MouseScrollDelta, a MouseMotion event its delta, a pair of f64 that are
\* here integer numbers of pixels; any other event is "Other".
EvButton(pressed) == [kind |-> "Button", pressed |-> pressed]

EvMouseWheel(delta) == [kind |-> "MouseWheel", delta |-> delta]

EvMouseMotion(dx, dy) == [kind |-> "MouseMotion", delta |-> <<dx, dy>>]

EvOther == [kind |-> "Other"]

\* An outcome of process_events: the controller, the camera, the calls it
\* made on the camera and the window, in order, and whether it returned.
Handled(ctl, r, calls) == [ctl |-> ctl, cam |-> r.cam, ok |-> r.ok, calls |-> calls]

\* The Button arm of process_events.
ButtonArm(ctl, is_pressed) ==
    IF ctl.is_pan THEN [ctl EXCEPT !.is_pan = is_pressed]
    ELSE [ctl EXCEPT !.is_drag_rotate = is_pressed]

\* The match on the scroll delta: scroll * 1.0 for a line delta, the pixel
\* count as f32 for a pixel delta.
scroll_value(delta) == IF delta.line THEN FMul(delta.v, One) ELSE AsF32(delta.v)

\* The MouseWheel arm without the sign inversion of the scroll amount.
MouseWheelArm_NotInverted(ctl, c, delta) ==
    LET Zoomed(r) ==
            Handled(ctl, r, IF r.ok THEN <<"add_distance", "request_redraw">>
                            ELSE <<"add_distance">>)
    IN  {Zoomed(r) : r \in add_distance(c, FMul(scroll_value(delta), ctl.zoom_speed))}

\* The MouseWheel arm of process_events: scroll_amount is the negated scroll
\* value; the window is asked to redraw when add_distance, of outcome r,
\* returned.
MouseWheelArm(ctl, c, delta) ==
    LET Zoomed(r) ==
            Handled(ctl, r, IF r.ok THEN <<"add_distance", "request_redraw">>
                            ELSE <<"add_distance">>)
    IN  {Zoomed(r) : r \in add_distance(c, FMul(FNeg(scroll_value(delta)), ctl.zoom_speed))}

\* The drag-rotate branch of the MouseMotion arm: add_yaw, of outcome r1,
\* then add_pitch, of outcome r2.  -delta.0 as f32 negates the f64 and then
\* converts it, which is the negated conversion.  The cameras add_yaw may
\* leave differ in eye only, which add_pitch does not read: its outcomes R2
\* are found on one of them, and one that panicked has left the camera of
\* r1 as it was.
DragRotateBranch(ctl, c, dx, dy) ==
    LET Pitched(r2) ==
            Handled(ctl, r2, IF r2.ok THEN <<"add_yaw", "add_pitch", "request_redraw">>
                             ELSE <<"add_yaw", "add_pitch">>)
        Yawed(r1, R2) ==
            IF ~r1.ok THEN {Handled(ctl, r1, <<"add_yaw">>)}
            ELSE {Pitched(IF r2.ok THEN r2 ELSE Panicked(r1.cam)) : r2 \in R2}
        Then(R1) ==
            UNION { Yawed(r1, R2) :
                      r1 \in R1,
                      R2 \in {add_pitch((CHOOSE r \in R1 : TRUE).cam,
                                        FMul(AsF32(dy), ctl.rotate_speed))} }
    IN  UNION {Then(R1) : R1 \in {add_yaw(c, FMul(FNeg(AsF32(dx)), ctl.rotate_speed))}}

\* The pan branch of the MouseMotion arm.
PanBranch(ctl, c, dx, dy) ==
    { Handled(ctl,
              pan(c, << FDiv(FMul(AsF32(dx), ctl.rotate_speed), Two),
                        FDiv(FMul(AsF32(dy), ctl.rotate_speed), Two) >>),
              <<"pan", "request_redraw">>) }

\* The MouseMotion arm of process_events.
MouseMotionArm(ctl, c, dx, dy) ==
    IF ctl.is_drag_rotate THEN DragRotateBranch(ctl, c, dx, dy)
    ELSE IF ctl.is_pan THEN PanBranch(ctl, c, dx, dy)
    ELSE {Handled(ctl, Returned(c), <<>>)}

\* CameraController::process_events: its outcomes.
process_events(ctl, event, c) ==
    IF event.kind = "Button" THEN {Handled(ButtonArm(ctl, event.pressed), Returned(c), <<>>)}
    ELSE IF event.kind = "MouseWheel" THEN MouseWheelArm(ctl, c, event.delta)
    ELSE IF event.kind = "MouseMotion"
         THEN MouseMotionArm(ctl, c, event.delta[1], event.delta[2])
    ELSE {Handled(ctl, Returned(c), <<>>)}

\* CameraController::process_keyed_events: isShiftLeft tells whether the
\* event's physical key is ShiftLeft.
process_keyed_events(ctl, isShiftLeft, is_pressed) ==
    IF isShiftLeft THEN [ctl EXCEPT !.is_pan = is_pressed] ELSE ctl

(* ---------------------------------------------------------------------- *)
(* Bounds and inputs of the model                                          *)
(* ---------------------------------------------------------------------- *)

\* The number of events and engine updates a behaviour of the engine makes.
MaxEvents == 4

\* The number of pointer-motion events among them.
MaxMotions == 1

\* The number of calls a behaviour of the camera, or of the uniform buffer,
\* makes.
MaxMoves == 2

\* The count of engine updates between two frames saturates here.
MaxUpdates == 2

\* Window sizes (width, height) in pixels.
Sizes == {<<800, 600>>, <<1920, 1080>>}

\* Scroll deltas: one line away from the user, thirty pixels towards the user.
Scrolls == {LineDelta(One), PixelDelta(-30)}

\* Pointer motion deltas (dx, dy) in pixels.
Motions == {<<100, 0>>, <<0, 400>>}

\* Arguments of the distance calls: NaN, the infinities, -5, 0, 0.5, 5, 100.
DistanceArgs ==
    {NaN, NegInf, PosInf, AsF32(-5), 0, Dec(1, 2), AsF32(5), AsF32(100)}

\* Arguments of the pitch and yaw calls: NaN, the infinities, -3, -0.5, 1000.
AngleArgs == {NaN, NegInf, PosInf, AsF32(-3), FNeg(Dec(1, 2)), AsF32(1000)}

\* Arguments of pan: (0.1, 0), (0, -0.25), (0.25, 0.3), (2^24, 0).
PanArgs ==
    { <<Dec(1, 10), 0>>, <<0, FNeg(Dec(1, 4))>>, <<Dec(1, 4), Dec(3, 10)>>,
      <<AsF32(16777216), 0>> }

\* The distances and targets a camera is constructed with, at pitch 0 and
\* yaw 0: 0, 1 and +infinity about the origin, 1 about (3, 5, -2) and about
\* (2^24, 0, 0).
InitDistances == {0, One, PosInf}

InitTargets == {VZero, <<AsF32(3), AsF32(5), AsF32(-2)>>, <<AsF32(16777216), 0, 0>>}

\* The bounds assigned to a camera's public bounds field.
BoundsChoices ==
    { OrbitCameraBoundsDefault,
      [OrbitCameraBoundsDefault EXCEPT !.min_distance = Some(Dec(11, 10))],
      [OrbitCameraBoundsDefault EXCEPT !.max_distance = None],
      [OrbitCameraBoundsDefault EXCEPT !.min_distance = Some(AsF32(20))],
      [OrbitCameraBoundsDefault EXCEPT !.min_pitch = One, !.max_pitch = FNeg(One)],
      [OrbitCameraBoundsDefault EXCEPT !.max_pitch = NaN],
      [OrbitCameraBoundsDefault EXCEPT !.min_yaw = Some(FNeg(PI)), !.max_yaw = Some(PI)],
      [OrbitCameraBoundsDefault EXCEPT !.min_yaw = Some(PI), !.max_yaw = Some(FNeg(PI))],
      [OrbitCameraBoundsDefault EXCEPT !.min_yaw = Some(NaN)],
      [OrbitCameraBoundsDefault EXCEPT !.min_yaw = Some(FNeg(PI))],
      [OrbitCameraBoundsDefault EXCEPT !.max_yaw = Some(PI)] }

(* ---------------------------------------------------------------------- *)
(* State                                                                   *)
(* ---------------------------------------------------------------------- *)

VARIABLES
    engine,       \* App.render_engine (and App.window) is Some
    cam,          \* RenderEngine.camera
    ctl,          \* RenderEngine.camera_controller
    ubo,          \* RenderEngine.global_ubo
    shiftHeld,    \* the physical state of the ShiftLeft key
    buttonHeld,   \* the physical state of the primary pointer button
    last,         \* the last call or event: its name and arguments
    calls,        \* the calls the last handler made, in order
    fault,        \* a call panicked: the process has aborted
    moves,        \* events counted against MaxEvents, calls against MaxMoves
    motions,      \* pointer-motion events, counted against MaxMotions
    updates,      \* engine updates since the last rendered frame
    frameUpdates, \* engine updates that preceded the last rendered frame
    rendered      \* the GPU buffer content the last frame was drawn with

vars == <<engine, cam, ctl, ubo, shiftHeld, buttonHeld, last, calls, fault, moves, motions,
          updates, frameUpdates, rendered>>

Op(name, x, y) == [op |-> name, x |-> x, y |-> y]

(* ---------------------------------------------------------------------- *)
(* render_engine.rs, app.rs                                                *)
(* ---------------------------------------------------------------------- *)

\* The camera RenderEngine::new builds: OrbitCamera::new(1.0, 0.0, 0.0,
\* (0, 0, 0), width / height), then bounds.min_distance = Some(1.1).
RenderEngine_camera(width, height) ==
    { [c EXCEPT !.bounds.min_distance = Some(Dec(11, 10))] :
        c \in OrbitCamera_new(One, 0, 0, VZero, FDiv(AsF32(width), AsF32(height))) }

\* The state RenderEngine::new leaves, for a window of the given size.
RenderEngine_new(size) ==
    /\ cam \in RenderEngine_camera(size[1], size[2])
    /\ ctl = CameraController_new(Dec(5, 1000), Dec(1, 10))
    /\ ubo = UniformBuffer_new
    /\ shiftHeld = FALSE
    /\ buttonHeld = FALSE
    /\ last = Op("new", size[1], size[2])
    /\ calls = <<>>
    /\ fault = FALSE
    /\ moves = 0
    /\ motions = 0
    /\ updates = 0
    /\ frameUpdates = 0
    /\ rendered = <<>>

\* The state the first App::resumed leaves: the engine RenderEngine::new
\* builds for the inner size of the window create_window returned; no
\* engine, when create_window failed (created is FALSE); no engine and the
\* process aborted, when create_window returned the window and
\* RenderEngine::new panicked (no surface, adapter or device).
Init ==
    \/ engine = TRUE /\ \E size \in Sizes : RenderEngine_new(size)
    \/ /\ engine = FALSE
       /\ \E created \in BOOLEAN :
          /\ cam = None
          /\ ctl = None
          /\ ubo = None
          /\ shiftHeld = FALSE
          /\ buttonHeld = FALSE
          /\ last = Op("resumed", 0, 0)
          /\ calls = IF created THEN <<"create_window", "RenderEngine::new">>
                     ELSE <<"create_window">>
          /\ fault = created
          /\ moves = 0
          /\ motions = 0
          /\ updates = 0
          /\ frameUpdates = 0
          /\ rendered = <<>>

\* The effect of an outcome h of process_events on the state.
Apply(h) ==
    /\ ctl' = h.ctl
    /\ cam' = h.cam
    /\ calls' = h.calls
    /\ fault' = ~h.ok

\* RenderEngine::process_event with a primary-button event.  The button is
\* pressed when it is up and released when it is down.
DeviceButton ==
    /\ engine
    /\ ~fault
    /\ moves < MaxEvents
    /\ \E h \in process_events(ctl, EvButton(~buttonHeld), cam) : Apply(h)
    /\ buttonHeld' = ~buttonHeld
    /\ last' = Op(IF buttonHeld THEN "button_release" ELSE "button_press", 0, 0)
    /\ moves' = moves + 1
    /\ UNCHANGED <<engine, motions, ubo, shiftHeld, updates, frameUpdates, rendered>>

\* RenderEngine::process_event with a scroll event.
DeviceMouseWheel ==
    /\ engine
    /\ ~fault
    /\ moves < MaxEvents
    /\ \E delta \in Scrolls :
          /\ \E h \in process_events(ctl, EvMouseWheel(delta), cam) : Apply(h)
          /\ last' = Op("scroll", delta, 0)
    /\ moves' = moves + 1
    /\ UNCHANGED <<engine, motions, ubo, shiftHeld, buttonHeld,
                   updates, frameUpdates, rendered>>

\* RenderEngine::process_event with a pointer-motion event.
DeviceMouseMotion ==
    /\ engine
    /\ ~fault
    /\ moves < MaxEvents
    /\ motions < MaxMotions
    /\ \E d \in Motions :
          /\ \E h \in process_events(ctl, EvMouseMotion(d[1], d[2]), cam) : Apply(h)
          /\ last' = Op("motion", d[1], d[2])
    /\ moves' = moves + 1
    /\ motions' = motions + 1
    /\ UNCHANGED <<engine, ubo, shiftHeld, buttonHeld, updates, frameUpdates, rendered>>

\* RenderEngine::process_event with any other device event.
DeviceOther ==
    /\ engine
    /\ ~fault
    /\ moves < MaxEvents
    /\ \E h \in process_events(ctl, EvOther, cam) : Apply(h)
    /\ last' = Op("device_other", 0, 0)
    /\ moves' = moves + 1
    /\ UNCHANGED <<engine, motions, ubo, shiftHeld, buttonHeld,
                   updates, frameUpdates, rendered>>

\* CameraController::process_keyed_events with a ShiftLeft event.  The key
\* is pressed when it is up and released when it is down.
KeyShift ==
    /\ engine
    /\ ~fault
    /\ moves < MaxEvents
    /\ ctl' = process_keyed_events(ctl, TRUE, ~shiftHeld)
    /\ shiftHeld' = ~shiftHeld
    /\ last' = Op(IF shiftHeld THEN "shift_release" ELSE "shift_press", 0, 0)
    /\ calls' = <<>>
    /\ moves' = moves + 1
    /\ UNCHANGED <<engine, motions, cam, ubo, buttonHeld,
                   fault, updates, frameUpdates, rendered>>

\* CameraController::process_keyed_events with an event of another key.
KeyOther ==
    /\ engine
    /\ ~fault
    /\ moves < MaxEvents
    /\ \E is_pressed \in BOOLEAN : ctl' = process_keyed_events(ctl, FALSE, is_pressed)
    /\ last' = Op("key_other", 0, 0)
    /\ calls' = <<>>
    /\ moves' = moves + 1
    /\ UNCHANGED <<engine, motions, cam, ubo, shiftHeld, buttonHeld, fault, updates, frameUpdates,
                   rendered>>

\* RenderEngine::update: update_view_proj, of any outcome r, then
\* update_global_ubo with the camera's uniform as it lies in memory.
RenderEngine_update ==
    LET Updated(r) ==
            /\ cam' = r.cam
            /\ fault' = ~r.ok
            /\ ubo' \in IF r.ok
                         THEN { update_global_ubo(ubo, camera) :
                                  camera \in CameraUniform(r.cam.uniform) }
                         ELSE {ubo}
            /\ calls' = IF r.ok THEN <<"update_view_proj", "update_global_ubo">>
                        ELSE <<"update_view_proj">>
    IN  /\ engine
        /\ ~fault
        /\ moves < MaxEvents
        /\ \E r \in update_view_proj(cam) : Updated(r)
        /\ last' = Op("update", 0, 0)
        /\ moves' = moves + 1
        /\ updates' = IF updates < MaxUpdates THEN updates + 1 ELSE updates
        /\ UNCHANGED <<engine, motions, ctl, shiftHeld,
                       buttonHeld, frameUpdates, rendered>>

\* App::window_event with WindowEvent::Resized: RenderEngine::resize, then
\* window.request_redraw().
WindowResized ==
    /\ engine
    /\ ~fault
    /\ moves < MaxEvents
    /\ \E size \in Sizes :
          LET r == resize_projection(cam, size[1], size[2])
          IN  /\ cam' = r.cam
              /\ last' = Op("resize", size[1], size[2])
    /\ calls' = <<"resize_projection", "request_redraw">>
    /\ moves' = moves + 1
    /\ UNCHANGED <<engine, motions, ctl, ubo, shiftHeld, buttonHeld, fault, updates, frameUpdates,
                   rendered>>

\* RenderEngine::render_frame.  When the surface gives its current texture
\* (acquired) the pass is drawn with the bind group's uniform buffer as it
\* is; when it gives an error, get_current_texture().expect(..) panics and
\* nothing is drawn.
render_frame(acquired) ==
    IF acquired
    THEN /\ rendered' = ubo.buffer
         /\ frameUpdates' = updates
         /\ updates' = 0
         /\ fault' = FALSE
    ELSE /\ fault' = TRUE
         /\ UNCHANGED <<rendered, frameUpdates, updates>>

\* App::window_event with WindowEvent::RedrawRequested: render_frame, then,
\* when it has returned, window.request_redraw().
WindowRedrawRequested ==
    /\ engine
    /\ ~fault
    /\ moves < MaxEvents
    /\ \E acquired \in BOOLEAN :
          /\ render_frame(acquired)
          /\ calls' = IF acquired THEN <<"render_frame", "request_redraw">>
                      ELSE <<"render_frame">>
    /\ last' = Op("render_frame", 0, 0)
    /\ moves' = moves + 1
    /\ UNCHANGED <<engine, motions, cam, ctl, ubo, shiftHeld, buttonHeld>>

\* The arms of App::window_event that leave the engine alone: what the arm
\* called, then window.request_redraw().  event_loop.exit() asks the loop to
\* stop; the events already queued are still delivered.
WindowArm(called) ==
    /\ last' = Op("window_event", 0, 0)
    /\ calls' = called \o <<"request_redraw">>
    /\ moves' = moves + 1
    /\ UNCHANGED <<engine, motions, cam, ctl, ubo, shiftHeld, buttonHeld, fault, updates,
                   frameUpdates, rendered>>

\* App::window_event with WindowEvent::KeyboardInput of a physical key code:
\* event_loop.exit() when the key is Escape, nothing for another key.  The
\* camera controller is not told of the key.
WindowKeyboardInput ==
    /\ engine
    /\ ~fault
    /\ moves < MaxEvents
    /\ \E escape \in BOOLEAN : WindowArm(IF escape THEN <<"exit">> ELSE <<>>)

\* App::window_event with WindowEvent::CloseRequested: event_loop.exit().
WindowCloseRequested ==
    /\ engine
    /\ ~fault
    /\ moves < MaxEvents
    /\ WindowArm(<<"exit">>)

\* App::window_event with any other window event.
WindowOther ==
    /\ engine
    /\ ~fault
    /\ moves < MaxEvents
    /\ WindowArm(<<>>)

\* App::window_event with no engine: it returns before the match, and
\* window.request_redraw() is not called.
WindowEventWithoutEngine ==
    /\ ~engine
    /\ ~fault
    /\ moves < MaxEvents
    /\ last' = Op("window_event", 0, 0)
    /\ calls' = <<>>
    /\ moves' = moves + 1
    /\ UNCHANGED <<engine, motions, cam, ctl, ubo, shiftHeld, buttonHeld, fault, updates,
                   frameUpdates, rendered>>

\* A further App::resumed, with an engine running or with none.  When
\* create_window fails nothing is done; when it has created the window,
\* RenderEngine::new is called for the window's size and either panics (no
\* surface, adapter or device: the first disjunct, with created) or returns
\* the engine that replaces the one there is.  The keys and buttons held
\* stay held.
AppResumed ==
    /\ ~fault
    /\ moves < MaxEvents
    /\ \/ /\ last' = Op("resumed", 0, 0)
          /\ \E created \in BOOLEAN :
                /\ calls' = IF created THEN <<"create_window", "RenderEngine::new">>
                            ELSE <<"create_window">>
                /\ fault' = created
          /\ UNCHANGED <<engine, motions, cam, ctl, ubo, updates, frameUpdates, rendered>>
       \/ \E size \in Sizes :
             /\ engine' = TRUE
             /\ cam' \in RenderEngine_camera(size[1], size[2])
             /\ ctl' = CameraController_new(Dec(5, 1000), Dec(1, 10))
             /\ ubo' = UniformBuffer_new
             /\ last' = Op("resumed", size[1], size[2])
             /\ calls' = <<"create_window", "RenderEngine::new">>
             /\ fault' = FALSE
             /\ updates' = 0
             /\ frameUpdates' = 0
             /\ rendered' = <<>>
    /\ moves' = moves + 1
    /\ UNCHANGED <<shiftHeld, buttonHeld, motions>>

Next ==
    \/ DeviceButton
    \/ DeviceMouseWheel
    \/ DeviceMouseMotion
    \/ DeviceOther
    \/ KeyShift
    \/ KeyOther
    \/ RenderEngine_update
    \/ WindowResized
    \/ WindowRedrawRequested
    \/ WindowKeyboardInput
    \/ WindowCloseRequested
    \/ WindowOther
    \/ WindowEventWithoutEngine
    \/ AppResumed

Spec == Init /\ [][Next]_vars

(* ---------------------------------------------------------------------- *)
(* The camera's public interface, called directly                          *)
(* ---------------------------------------------------------------------- *)

\* A camera constructed by OrbitCamera::new with any of the initial poses.
InitCam ==
    /\ \E d \in InitDistances, t \in InitTargets :
          /\ d = One \/ t = VZero
          /\ cam \in OrbitCamera_new(d, 0, 0, t, FDiv(AsF32(800), AsF32(600)))
          /\ last = Op("new", d, 0)
    /\ engine = TRUE
    /\ ctl = CameraController_new(Dec(5, 1000), Dec(1, 10))
    /\ ubo = UniformBuffer_new
    /\ shiftHeld = FALSE
    /\ buttonHeld = FALSE
    /\ calls = <<>>
    /\ fault = FALSE
    /\ moves = 0
    /\ motions = 0
    /\ updates = 0
    /\ frameUpdates = 0
    /\ rendered = <<>>

\* A call can be made: the process has not aborted.
Callable == ~fault /\ moves < MaxMoves

\* The effect of an outcome r of a call on the state: a panic aborts the
\* process.
Call(r, op) ==
    /\ cam' = r.cam
    /\ fault' = ~r.ok
    /\ last' = op
    /\ moves' = moves + 1
    /\ UNCHANGED <<engine, motions, ctl, ubo, shiftHeld, buttonHeld, calls, updates, frameUpdates,
                   rendered>>

\* camera.bounds = b: the bounds field is public.
CamAssignBounds ==
    /\ Callable
    /\ \E b \in BoundsChoices :
          /\ b # cam.bounds
          /\ Call(Returned([cam EXCEPT !.bounds = b]), Op("assign_bounds", 0, 0))

CamSetDistance ==
    /\ Callable
    /\ \E v \in DistanceArgs :
          \E r \in set_distance(cam, v) : Call(r, Op("set_distance", v, v))

\* last.y of an add_* call is the value it proposes to the set_* call.
CamAddDistance ==
    /\ Callable
    /\ \E v \in DistanceArgs :
          \E r \in add_distance(cam, v) : Call(r, Op("add_distance", v, r.proposed))

CamSetPitch ==
    /\ Callable
    /\ \E v \in AngleArgs : \E r \in set_pitch(cam, v) : Call(r, Op("set_pitch", v, v))

CamAddPitch ==
    /\ Callable
    /\ \E v \in AngleArgs :
          \E r \in add_pitch(cam, v) : Call(r, Op("add_pitch", v, FAdd(cam.pitch, v)))

CamSetYaw ==
    /\ Callable
    /\ \E v \in AngleArgs : \E r \in set_yaw(cam, v) : Call(r, Op("set_yaw", v, v))

CamAddYaw ==
    /\ Callable
    /\ \E v \in AngleArgs :
          \E r \in add_yaw(cam, v) : Call(r, Op("add_yaw", v, FAdd(cam.yaw, v)))

CamPan ==
    /\ Callable
    /\ \E d \in PanArgs : Call(pan(cam, d), Op("pan", d[1], d[2]))

CamResizeProjection ==
    /\ Callable
    /\ \E size \in Sizes :
          Call(resize_projection(cam, size[1], size[2]), Op("resize", size[1], size[2]))

CamUpdateViewProj ==
    /\ Callable
    /\ \E r \in update_view_proj(cam) : Call(r, Op("update_view_proj", 0, 0))

NextCam ==
    \/ CamAssignBounds
    \/ CamSetDistance
    \/ CamAddDistance
    \/ CamSetPitch
    \/ CamAddPitch
    \/ CamSetYaw
    \/ CamAddYaw
    \/ CamPan
    \/ CamResizeProjection
    \/ CamUpdateViewProj

SpecCam == InitCam /\ [][NextCam]_vars

(* ---------------------------------------------------------------------- *)
(* A uniform buffer on its own: wgpu_utils/uniform_buffer.rs               *)
(* ---------------------------------------------------------------------- *)

\* The contents a GlobalUBO is created with and updated to, by index: the
\* all-zero content, the default uniform, a uniform with a finite view
\* position, a snapshot of the engine's camera for each of two windows, and
\* a uniform with a NaN view position in three bit patterns, 0x7fc00000,
\* 0xffc00000 and 0x7fc00001.
UboContentIds == 1 .. 8

\* A uniform update_view_proj stores for the camera RenderEngine::new builds
\* for a window of the given size.
SnapshotOf(width, height) ==
    CHOOSE u \in UNION { {r.cam.uniform : r \in update_view_proj(c)} :
                          c \in RenderEngine_camera(width, height) } : TRUE

UboContents(i) ==
    CASE i = 1 -> [CameraUniformDefault EXCEPT !.view_proj = [j \in 1..4 |-> <<0, 0, 0, 0>>]]
      [] i = 2 -> CameraUniformDefault
      [] i = 3 -> [CameraUniformDefault EXCEPT !.view_position = <<One, 0, 0, One>>]
      [] i = 4 -> SnapshotOf(800, 600)
      [] i = 5 -> SnapshotOf(1920, 1080)
      [] i = 6 -> [CameraUniformDefault EXCEPT !.view_position = <<NaN, NaN, NaN, One>>]
      [] i = 7 -> [CameraUniformDefault EXCEPT
                      !.view_position = <<-NaN - 1, -NaN - 1, -NaN - 1, One>>]
      [] i = 8 -> [CameraUniformDefault EXCEPT
                      !.view_position = <<NaN + 1, NaN + 1, NaN + 1, One>>]

\* A buffer made by UniformBuffer::new, or by UniformBuffer::new_with_data
\* with any of the contents.  last.x is the index of the content passed.
InitUbo ==
    /\ \/ ubo = UniformBuffer_new /\ last = Op("ubo_new", 0, 0)
       \/ \E i \in UboContentIds :
             /\ ubo = UniformBuffer_new_with_data(UboContents(i))
             /\ last = Op("ubo_new_with_data", i, 0)
    /\ engine = TRUE
    /\ cam \in RenderEngine_camera(800, 600)
    /\ ctl = CameraController_new(Dec(5, 1000), Dec(1, 10))
    /\ shiftHeld = FALSE
    /\ buttonHeld = FALSE
    /\ calls = <<>>
    /\ fault = FALSE
    /\ moves = 0
    /\ motions = 0
    /\ updates = 0
    /\ frameUpdates = 0
    /\ rendered = <<>>

\* UniformBuffer::update_content with any of the contents.
UboUpdateContent ==
    /\ ~fault
    /\ moves < MaxMoves
    /\ \E i \in UboContentIds :
          /\ ubo' = update_content(ubo, UboContents(i))
          /\ last' = Op("update_content", i, 0)
    /\ calls' = IF ubo'.writes # ubo.writes THEN <<"write_buffer">> ELSE <<>>
    /\ moves' = moves + 1
    /\ updates' = IF updates < MaxUpdates THEN updates + 1 ELSE updates
    /\ UNCHANGED <<engine, motions, cam, ctl, shiftHeld,
                   buttonHeld, fault, frameUpdates, rendered>>

\* RenderEngine::render_frame: a frame drawn with the buffer as it is, or
\* the panic on a surface error.
UboRenderFrame ==
    /\ ~fault
    /\ \E acquired \in BOOLEAN : render_frame(acquired)
    /\ last' = Op("render_frame", 0, 0)
    /\ calls' = <<"render_frame">>
    /\ UNCHANGED <<engine, motions, cam, ctl, ubo, shiftHeld, buttonHeld, moves>>

NextUbo ==
    \/ UboUpdateContent
    \/ UboRenderFrame

SpecUbo == InitUbo /\ [][NextUbo]_vars

(* ---------------------------------------------------------------------- *)
(* Properties                                                              *)
(* ---------------------------------------------------------------------- *)

\* The lower and upper distance bounds in force, the upper one absent
\* being +infinity.
DistanceLo(c) == unwrap_or(c.bounds.min_distance, EPSILON)

DistanceHi(c) == unwrap_or(c.bounds.max_distance, PosInf)

\* C1: in every reachable state of the engine's camera, distance lies in
\* [min_distance or epsilon, max_distance or +infinity].
C1_DistanceWithinBounds ==
    engine => (Le(DistanceLo(cam), cam.distance) /\ Le(cam.distance, DistanceHi(cam)))

\* The six bounded setters of the camera.
BoundedSetters ==
    {"set_distance", "add_distance", "set_pitch", "add_pitch", "set_yaw", "add_yaw"}

\* C2: none of set_distance, add_distance, set_pitch, add_pitch, set_yaw and
\* add_yaw faults, whatever its argument and whatever the bounds fields
\* have been assigned.
C2_NoSetterFaults == ~(fault /\ last.op \in BoundedSetters)

\* C3: after every primary-button release the controller is idle:
\* is_drag_rotate is false, and is_pan is false unless the modifier is held.
C3_ReleaseReturnsToIdle ==
    (last.op = "button_release") =>
        (~ctl.is_drag_rotate /\ (ctl.is_pan => shiftHeld))

\* C4: after a primary-button press that arrives while the modifier key is
\* held, the controller is panning: is_pan is true and the press has not set
\* is_drag_rotate.
C4_PressWithModifierPans ==
    (last.op = "button_press" /\ shiftHeld) => ctl.is_pan

\* C5: in every reachable state of the controller is_pan equals the
\* physical pressed state of the modifier key.
C5_PanTracksModifier == engine => (ctl.is_pan = shiftHeld)

\* C6: a pointer-motion event handled while is_pan is true calls pan and
\* neither add_yaw nor add_pitch, also when is_drag_rotate is true as well.
C6_PanTakesPrecedence ==
    (last.op = "motion" /\ ctl.is_pan) => calls = <<"pan", "request_redraw">>

\* The uniforms update_view_proj may store for the camera as it is.
FreshUniform(c) == {r.cam.uniform : r \in update_view_proj(c)}

\* C7: every rendered frame is preceded by exactly one engine update made
\* after the last camera mutation, so the frame is drawn with a snapshot
\* of the camera as it is.
C7_UpdateOncePerFrame ==
    (last.op = "render_frame" /\ ~fault) =>
        /\ frameUpdates = 1
        /\ \E u \in FreshUniform(cam) :
              \E camera \in CameraUniform(u) : rendered = bytes_of(camera)

\* The eyes the spherical-to-Cartesian function may give for the pose of c.
EyeOf(c) == calculate_cartesian_eye_position(c.pitch, c.yaw, c.distance, c.target)

\* a and b are the same f32, or two finite f32 at most 2^-20 * s apart:
\* eight units in the last place of s.
Near(a, b, s) ==
    \/ a = b
    \/ /\ IsFinite(a) /\ IsFinite(b)
       /\ Le(FAbs(FSub(a, b)), FMul(Dec(1, 1048576), s))

\* C8: after construction and after every pose mutator, pan included, eye
\* equals the spherical-to-Cartesian function of the current (pitch, yaw,
\* distance, target): it is a value the function returns for them.
C8_Original == cam.eye \in EyeOf(cam)

\* The three cases of a clamp of v to [lo, hi], for the stored value d.
StoresClamp(v, lo, hi, d) ==
    /\ (Le(lo, v) /\ Le(v, hi)) => d = v
    /\ Lt(v, lo) => d = lo
    /\ Lt(hi, v) => d = hi

\* C9 as stated: a set_distance(v) that returns stores v clamped to
\* [min_distance or epsilon, max_distance or +infinity].
C9_Original ==
    (last.op = "set_distance" /\ ~fault) =>
        StoresClamp(last.x, DistanceLo(cam), DistanceHi(cam), cam.distance)

\* C9 amended: a set_distance(v) that returns stores v clamped to
\* [min_distance or epsilon, max_distance or f32::MAX]: v itself when in
\* range, the lower bound when below, the upper bound when above (so
\* +infinity with no max_distance stores f32::MAX); with bounds (1.1, 16.0),
\* set_distance(0.0) stores 1.1 and set_distance(100.0) stores 16.0.
C9_SetDistanceClamps ==
    (last.op = "set_distance" /\ ~fault) =>
        /\ StoresClamp(last.x, DistanceLo(cam),
                       unwrap_or(cam.bounds.max_distance, FMax), cam.distance)
        /\ (cam.bounds.min_distance = Some(Dec(11, 10))
               /\ cam.bounds.max_distance = Some(AsF32(16))) =>
              /\ last.x = 0 => cam.distance = Dec(11, 10)
              /\ last.x = AsF32(100) => cam.distance = AsF32(16)

\* C9 witness: with bounds (1.1, 16.0), set_distance(100.0) has stored 16.0.
C9_Witness ==
    /\ last.op = "set_distance" /\ ~fault /\ last.x = AsF32(100)
    /\ cam.bounds.min_distance = Some(Dec(11, 10))
    /\ cam.bounds.max_distance = Some(AsF32(16))
    /\ cam.distance = AsF32(16)

\* pitch lies in [min_pitch, max_pitch].
PitchWithinBounds(c) == Le(c.bounds.min_pitch, c.pitch) /\ Le(c.pitch, c.bounds.max_pitch)

\* C10 as stated: after a set_pitch or add_pitch that returns, pitch lies
\* in [min_pitch, max_pitch], for every input value.
C10_Original ==
    (last.op \in {"set_pitch", "add_pitch"} /\ ~fault) => PitchWithinBounds(cam)

\* C10 amended: after a set_pitch(v) or add_pitch(delta) that returns and
\* whose proposed pitch (v, or pitch + delta) is not NaN, pitch lies in
\* [min_pitch, max_pitch], +/-infinity and values far outside the range
\* included; a proposed NaN is stored as NaN.
C10_PitchClamped ==
    (last.op \in {"set_pitch", "add_pitch"} /\ ~fault) =>
        IF IsNaN(last.y) THEN IsNaN(cam.pitch) ELSE PitchWithinBounds(cam)

\* C10 witness: set_pitch(+infinity) has stored max_pitch.
C10_Witness ==
    /\ last.op = "set_pitch" /\ ~fault /\ last.x = PosInf
    /\ cam.pitch = cam.bounds.max_pitch

\* C11: update_view_proj is the only operation that writes the uniform
\* snapshot: a step of any other camera operation leaves uniform unchanged.
C11_OnlyUpdateWritesUniform ==
    [][(cam'.uniform # cam.uniform) => last'.op = "update_view_proj"]_vars

\* C11 witness: a pose mutator has run after an update_view_proj, and the
\* uniform still holds the snapshot that update stored, which is no longer
\* a snapshot of the camera as it is.
C11_Witness ==
    /\ last.op \in {"set_distance", "add_yaw", "pan"} /\ ~fault
    /\ cam.uniform # CameraUniformDefault
    /\ cam.uniform \notin FreshUniform(cam)

\* The distances add_distance(delta) may propose to set_distance.
Proposals(c, delta) == {FAdd(c.distance, FMul(l, delta)) : l \in FLog10(c.distance)}

\* c2 is c1 but for eye, which every bounded setter recomputes.
SameButEye(c1, c2) == c2 = [c1 EXCEPT !.eye = c2.eye]

\* c2 is the camera a set_distance(p) that returns makes of c1, but for eye.
Stored(c1, c2, p) ==
    SameButEye([c1 EXCEPT !.distance = clamp(p, DistanceLo(c1),
                                             unwrap_or(c1.bounds.max_distance, FMax))], c2)

\* C12: in every controller state a scroll event calls
\* camera.add_distance(-scroll * zoom_speed) exactly once, then requests a
\* redraw, and leaves is_drag_rotate and is_pan unchanged.
C12_ScrollAlwaysZooms ==
    [][(last'.op = "scroll") =>
          /\ calls' = <<"add_distance", "request_redraw">>
          /\ \E p \in Proposals(cam, FMul(FNeg(scroll_value(last'.x)), ctl.zoom_speed)) :
                Stored(cam, cam', p)
          /\ ctl' = ctl]_vars

\* C12 witness: a scroll event handled with both flags set has moved the
\* camera away from the distance the first scroll clamped it to.
C12_Witness ==
    /\ last.op = "scroll" /\ ctl.is_drag_rotate /\ ctl.is_pan
    /\ calls = <<"add_distance", "request_redraw">>
    /\ Lt(Dec(11, 10), cam.distance)

\* C13: pan adds one and the same displacement vector to eye and to
\* target, so eye - target is unchanged (as f32 values: no component is NaN
\* and the components differ by no more than the rounding of the sums),
\* and it leaves distance, pitch, yaw, aspect and uniform unchanged, for
\* every delta and every camera state.
C13_PanTranslatesRigidly ==
    [][(last'.op = "pan") =>
          /\ \A i \in 1..3 :
                LET s == FAdd(FAbs(cam.distance),
                              FAdd(FAbs(cam.target[i]), FAbs(cam'.target[i])))
                IN  /\ ~IsNaN(cam'.eye[i]) /\ ~IsNaN(cam'.target[i])
                    /\ Near(FSub(cam'.eye[i], cam.eye[i]),
                            FSub(cam'.target[i], cam.target[i]), s)
                    /\ Near(FSub(cam'.eye[i], cam'.target[i]),
                            FSub(cam.eye[i], cam.target[i]), s)
          /\ cam'.distance = cam.distance
          /\ cam'.pitch = cam.pitch
          /\ cam'.yaw = cam.yaw
          /\ cam'.aspect = cam.aspect
          /\ cam'.uniform = cam.uniform]_vars

\* The larger and the smaller of two values, the first when they do not
\* compare.
MaxOf(v, w) == IF Lt(v, w) THEN w ELSE v

MinOf(v, w) == IF Lt(w, v) THEN w ELSE v

\* C14 as stated: a set_yaw(v) that returns stores exactly v with neither
\* yaw bound set, max(v, min_yaw) with only min_yaw set, min(v, max_yaw)
\* with only max_yaw set, and a yaw in [min_yaw, max_yaw] with both set.
C14_Original ==
    (last.op = "set_yaw" /\ ~fault) =>
        LET lo == cam.bounds.min_yaw
            hi == cam.bounds.max_yaw
        IN  /\ (lo = None /\ hi = None) => cam.yaw = last.x
            /\ (lo # None /\ hi = None) => cam.yaw = MaxOf(last.x, lo[1])
            /\ (lo = None /\ hi # None) => cam.yaw = MinOf(last.x, hi[1])
            /\ (lo # None /\ hi # None) => (Le(lo[1], cam.yaw) /\ Le(cam.yaw, hi[1]))

\* C14 amended: a set_yaw(v) that returns stores exactly v with neither yaw
\* bound set (no wraparound: set_yaw(1000.0) stores 1000.0); with only
\* min_yaw it stores v clamped to [min_yaw, f32::MAX], so +infinity is
\* stored as f32::MAX; with only max_yaw it stores v clamped to
\* [f32::MIN, max_yaw], so -infinity is stored as f32::MIN; with both set,
\* min_yaw <= max_yaw and v not NaN, the stored yaw lies in
\* [min_yaw, max_yaw]; a NaN v is stored as NaN whatever the bounds.
C14_SetYawClamps ==
    (last.op = "set_yaw" /\ ~fault) =>
        LET lo == cam.bounds.min_yaw
            hi == cam.bounds.max_yaw
        IN  /\ (lo = None /\ hi = None) => cam.yaw = last.x
            /\ (lo # None /\ hi = None) => StoresClamp(last.x, lo[1], FMax, cam.yaw)
            /\ (lo = None /\ hi # None) => StoresClamp(last.x, FMin, hi[1], cam.yaw)
            /\ (lo # None /\ hi # None /\ Le(lo[1], hi[1]) /\ ~IsNaN(last.x)) =>
                  (Le(lo[1], cam.yaw) /\ Le(cam.yaw, hi[1]))
            /\ IsNaN(last.x) => IsNaN(cam.yaw)

\* C14 witness: with only min_yaw set, set_yaw(+infinity) has stored
\* f32::MAX.
C14_Witness ==
    /\ last.op = "set_yaw" /\ ~fault /\ last.x = PosInf
    /\ cam.bounds.min_yaw = Some(FNeg(PI)) /\ cam.bounds.max_yaw = None
    /\ cam.yaw = FMax

\* C15: resize_projection(width, height) sets aspect to width / height
\* (1920 / 1080 = 16 / 9, 800 / 600 = 4 / 3) and leaves distance, pitch, yaw,
\* target, eye, bounds and uniform, as every other field, unchanged, from
\* every camera state.
C15_ResizeSetsAspectOnly ==
    [][(last'.op = "resize") =>
          /\ cam'.aspect = FDiv(AsF32(last'.x), AsF32(last'.y))
          /\ (last'.x = 1920 /\ last'.y = 1080) => cam'.aspect = Dec(16, 9)
          /\ (last'.x = 800 /\ last'.y = 600) => cam'.aspect = Dec(4, 3)
          /\ cam' = [cam EXCEPT !.aspect = cam'.aspect]]_vars

\* C15 witness: resize_projection(1920, 1080) has changed the aspect of a
\* camera whose uniform an update_view_proj had written.
C15_Witness ==
    /\ last.op = "resize" /\ last.x = 1920 /\ last.y = 1080 /\ ~fault
    /\ cam.aspect = Dec(16, 9)
    /\ cam.uniform # CameraUniformDefault

\* C16 as stated: add_distance(delta) hands distance + log10(distance) *
\* delta to set_distance; that proposal lies on delta's side of distance
\* when distance > 1, on the opposite side when 0 < distance < 1, and is
\* distance itself for every delta when distance is exactly 1.
C16_Original ==
    [][(last'.op = "add_distance") =>
          LET d     == cam.distance
              delta == last'.x
              p     == last'.y
          IN  /\ p \in Proposals(cam, delta)
              /\ IF fault' THEN cam' = cam ELSE Stored(cam, cam', p)
              /\ (Lt(One, d) /\ Lt(0, delta)) => Le(d, p)
              /\ (Lt(One, d) /\ Lt(delta, 0)) => Le(p, d)
              /\ (Lt(0, d) /\ Lt(d, One) /\ Lt(0, delta)) => Le(p, d)
              /\ (Lt(0, d) /\ Lt(d, One) /\ Lt(delta, 0)) => Le(d, p)
              /\ (d = One) => p = d]_vars

\* C16 amended: add_distance(delta) hands distance + log10(distance) * delta
\* to set_distance. For a finite distance and a finite delta the proposal
\* lies on delta's side of distance when distance > 1, on the opposite side
\* when 0 < distance < 1, and is distance itself when distance is exactly 1,
\* so a finite delta leaves a distance of 1 that is inside the bounds
\* unchanged. The proposal is NaN when distance is exactly 1 and delta is
\* infinite (0 * infinity), and when distance is +infinity and delta is not
\* positive.
C16_AddDistanceDirection ==
    [][(last'.op = "add_distance") =>
          LET d     == cam.distance
              delta == last'.x
              p     == last'.y
          IN  /\ p \in Proposals(cam, delta)
              /\ IF fault' THEN cam' = cam ELSE Stored(cam, cam', p)
              /\ (IsFinite(d) /\ IsFinite(delta)) =>
                    /\ (Lt(One, d) /\ Lt(0, delta)) => Le(d, p)
                    /\ (Lt(One, d) /\ Lt(delta, 0)) => Le(p, d)
                    /\ (Lt(0, d) /\ Lt(d, One) /\ Lt(0, delta)) => Le(p, d)
                    /\ (Lt(0, d) /\ Lt(d, One) /\ Lt(delta, 0)) => Le(d, p)
                    /\ (d = One) => p = d
                    /\ (d = One /\ ~fault' /\ Le(DistanceLo(cam), d) /\ Le(d, DistanceHi(cam)))
                          => cam'.distance = d
              /\ (d = One /\ delta \in {PosInf, NegInf}) => IsNaN(p)
              /\ (d = PosInf /\ Le(delta, 0)) => IsNaN(p)]_vars

\* C16 witness: a positive delta at a distance below 1 has proposed a
\* negative distance, which set_distance stored as the lower bound.
C16_Witness ==
    /\ last.op = "add_distance" /\ ~fault /\ last.x = AsF32(5)
    /\ Lt(last.y, 0)
    /\ cam.distance = DistanceLo(cam)

\* C17: the two mode flags are mutually exclusive: in every controller
\* state reachable by button, modifier-key, pointer-motion and scroll
\* events, is_drag_rotate and is_pan are not both true.
C17_FlagsExclusive == engine => ~(ctl.is_drag_rotate /\ ctl.is_pan)

\* The controller's three modes as the two flags tell them: Panning while
\* is_pan is set, which takes precedence, DragRotating while is_drag_rotate
\* alone is set, Idle while neither is.
Idle(c) == ~c.is_drag_rotate /\ ~c.is_pan

DragRotating(c) == c.is_drag_rotate /\ ~c.is_pan

Panning(c) == c.is_pan

\* C18: a process_events call that changes a camera field requests a redraw
\* in the same call; a pointer motion in Idle and every button event change
\* no camera field and request no redraw; a motion in DragRotating calls
\* add_yaw(-dx * rotate_speed) then add_pitch(dy * rotate_speed), and a
\* motion in Panning calls pan((dx * rotate_speed / 2, dy * rotate_speed / 2)).
C18_MotionFollowsMode ==
    [][(last'.op \in {"button_press", "button_release", "scroll", "motion", "device_other"}) =>
          LET dx == last'.x
              dy == last'.y
              rs == ctl.rotate_speed
          IN  /\ (cam' # cam) => (calls' # <<>> /\ calls'[Len(calls')] = "request_redraw")
              /\ (last'.op \in {"button_press", "button_release"}) =>
                    (cam' = cam /\ calls' = <<>>)
              /\ (last'.op = "motion" /\ Idle(ctl)) => (cam' = cam /\ calls' = <<>>)
              /\ (last'.op = "motion" /\ DragRotating(ctl)) =>
                    /\ calls' = <<"add_yaw", "add_pitch", "request_redraw">>
                    /\ SameButEye(
                          [cam EXCEPT !.yaw = FAdd(cam.yaw, FMul(FNeg(AsF32(dx)), rs)),
                                      !.pitch = clamp(FAdd(cam.pitch, FMul(AsF32(dy), rs)),
                                                      cam.bounds.min_pitch,
                                                      cam.bounds.max_pitch)],
                          cam')
              /\ (last'.op = "motion" /\ Panning(ctl)) =>
                    /\ calls' = <<"pan", "request_redraw">>
                    /\ cam' = pan(cam, <<FDiv(FMul(AsF32(dx), rs), Two),
                                         FDiv(FMul(AsF32(dy), rs), Two)>>).cam]_vars

\* C19: for a UniformBuffer created by new or new_with_data, an
\* update_content call issues a queue write exactly when the new content's
\* bytes differ from previous_content; after every call previous_content
\* and the GPU buffer hold the bytes of the content passed, so a repeated
\* identical content causes no write and a frame is drawn with the latest
\* content.
C19_WriteIffContentDiffers ==
    [][/\ (last'.op = "update_content") =>
             LET new_content == bytes_of(UboContents(last'.x))
             IN  /\ ubo'.writes = ubo.writes +
                        (IF new_content # ubo.previous_content THEN 1 ELSE 0)
                 /\ calls' = IF new_content # ubo.previous_content
                             THEN <<"write_buffer">> ELSE <<>>
                 /\ ubo'.previous_content = new_content
                 /\ ubo'.buffer = new_content
       /\ (/\ last'.op = "render_frame" /\ ~fault'
           /\ last.op \in {"update_content", "ubo_new_with_data"}) =>
             rendered' = bytes_of(UboContents(last.x))]_vars

\* C19 witness: a buffer created with the NaN content of pattern 0x7fc00000,
\* and drawn from, has taken two update_content calls with the NaN content
\* of pattern 0xffc00000: the first differed in its bytes only by the sign
\* bits of the NaN and was written, the second was not.
C19_Witness ==
    /\ last.op = "update_content" /\ last.x = 7 /\ moves = 2
    /\ rendered = bytes_of(UboContents(6))
    /\ ubo.writes = 1 /\ calls = <<>>
    /\ ubo.buffer = bytes_of(UboContents(7))
    /\ ubo.previous_content = ubo.buffer
===========================================================================
